---- MODULE Spec2Model ----
(***************************************************************************)
(* Model of the cargo lock file reconciliation of                          *)
(* src/lib/modules/manager/cargo/artifacts.ts: updateArtifacts and its      *)
(* recursive worker updateArtifactsImpl, one top-level call per behaviour.  *)
(* The file system, the process executor and the lock content version       *)
(* extractor are collaborators outside the source file; they are modelled   *)
(* as an environment that answers every call with one value of a small set. *)
(***************************************************************************)
EXTENDS Integers, Sequences, FiniteSets, TLC

\* ------------------------------------------------------------------------
\* Bounds of the model
\* ------------------------------------------------------------------------

\* longest list of arbitrary upgrades in a request
MaxShortLen == 2

\* length of the one long request (one upgrade per package), long enough to
\* use up the whole retry budget
MaxLongLen == 11

\* how many packages one resolver execution may move to their new version
MaxAdvance == 2

\* ------------------------------------------------------------------------
\* Program constants
\* ------------------------------------------------------------------------

\* recursionLimit = 10, the default parameter of updateArtifactsImpl
DefaultRecursionLimit == 10

\* TEMPORARY_ERROR, the message that marks a fatal infrastructure error
TEMPORARY_ERROR == "temporary-error"

\* CrateDatasource.id
CrateDatasourceId == "crate"

\* the regular expression of line 182, by the stderr texts it accepts
PackageIdSpecStderr == "error: package ID specification foo@1.0.0 did not match any packages"

OtherStderr == "error: failed to select a version for the requirement"

\* err.stderr of an error that is no exec error (a file system error)
UndefinedStderr == "undefined"

\* ------------------------------------------------------------------------
\* Values
\* ------------------------------------------------------------------------

Packages == 1 .. MaxLongLen

\* versions: OldVersion is locked before the update, the other two are targets
OldVersion == "1.0.0"

NewVersion == "1.1.0"

OtherNewVersion == "2.0.0"

\* a missing (undefined) lockedVersion
NoVersion == ""

Upgrade(p, nv, lv, ds) ==
    [packageName |-> p, newVersion |-> nv, lockedVersion |-> lv, datasource |-> ds]

\* what readLocalFile can return: null, the empty string, or a text. A text
\* is described by the (package, version) pairs it locks; a text that is no
\* lock file has parsable = FALSE.
NullContent == [kind |-> "null", parsable |-> FALSE, locked |-> {}]

EmptyContent == [kind |-> "empty", parsable |-> FALSE, locked |-> {}]

Text(l) == [kind |-> "text", parsable |-> TRUE, locked |-> l]

GarbageContent == [kind |-> "text", parsable |-> FALSE, locked |-> {}]

\* lock file in which the packages 1..k are at their new version
Chain(k) == Text({<<p, IF p <= k THEN NewVersion ELSE OldVersion>> : p \in Packages})

\* lock file that locks package 1 twice and no other package
MultiContent == Text({<<1, OldVersion>>, <<1, OtherNewVersion>>})

ChainIndex(c) == Cardinality({x \in c.locked : x[2] = NewVersion})

\* JavaScript truthiness of a string | null
Truthy(c) == c.kind = "text"

\* an error object: its message and its stderr
NoErr == [message |-> "", stderr |-> ""]

\* the errors exec can reject with
ExecErrors ==
    [message : {TEMPORARY_ERROR, "Command failed: cargo update",
                "Command failed: cargo update --precise"},
     stderr : {PackageIdSpecStderr, OtherStderr}]

\* the errors writeLocalFile can reject with: file system errors carry no stderr
WriteErrors ==
    [message : {TEMPORARY_ERROR, "EACCES: permission denied"},
     stderr : {UndefinedStderr}]

\* the upgrades short requests are built from: two packages of the crate
\* datasource with a locked version, a second target for package 1, a crate
\* upgrade without locked version and a git upgrade
ShortUpgrades ==
    { Upgrade(1, NewVersion, OldVersion, CrateDatasourceId),
      Upgrade(2, NewVersion, OldVersion, CrateDatasourceId),
      Upgrade(1, OtherNewVersion, OldVersion, CrateDatasourceId),
      Upgrade(2, NewVersion, NoVersion, CrateDatasourceId),
      Upgrade(2, NewVersion, NoVersion, "git-refs") }

ShortLists == UNION {[1 .. n -> ShortUpgrades] : n \in 0 .. MaxShortLen}

LongList == [i \in 1 .. MaxLongLen |-> Upgrade(i, NewVersion, OldVersion, CrateDatasourceId)]

\* the updatedDeps of the requests
RequestLists == ShortLists \cup {LongList}

\* the lock file contents a call can start from
StartContents == {Chain(0), Chain(1), MultiContent, EmptyContent, NullContent}

\* what one execution of the resolver can leave in a lock file holding d:
\* nothing changed, some more packages at their new version, the first state
\* again, a lock file that locks other versions, no lock file, or no lock text
Clamp(k) == IF k > MaxLongLen THEN MaxLongLen ELSE k

DiskAfterExec(d) ==
    {d, Chain(0), MultiContent, GarbageContent, NullContent}
        \cup {Chain(Clamp(ChainIndex(d) + s)) : s \in 1 .. MaxAdvance}

\* ------------------------------------------------------------------------
\* Pure parts of updateArtifactsImpl
\* ------------------------------------------------------------------------

\* UpdateArtifactsResult values
FileAddition(path, contents) ==
    [file |-> [type |-> "addition", path |-> path, contents |-> contents]]

\* lines 211-216 with the two fields exchanged
ArtifactErrorSwapped(lockFile, stderr) ==
    [artifactError |-> [lockFile |-> stderr, stderr |-> lockFile]]

ArtifactError(lockFile, stderr) ==
    [artifactError |-> [lockFile |-> lockFile, stderr |-> stderr]]

IsFile(e) == "file" \in DOMAIN e

IsArtifactError(e) == "artifactError" \in DOMAIN e

\* how a call ends: return null, return a list, or throw
Pending == [outcome |-> "pending", isNull |-> FALSE, list |-> <<>>, error |-> NoErr]

ReturnNull == [outcome |-> "returned", isNull |-> TRUE, list |-> <<>>, error |-> NoErr]

ReturnList(l) == [outcome |-> "returned", isNull |-> FALSE, list |-> l, error |-> NoErr]

Throw(e) == [outcome |-> "thrown", isNull |-> FALSE, list |-> <<>>, error |-> e]

\* one command of `cargo update`: --workspace or not, --package name@locked
\* and --precise version when it pins
UpdateCmd(workspace) == [workspace |-> workspace, package |-> <<>>, precise |-> ""]

PreciseCmd(dep) ==
    [workspace |-> FALSE,
     package |-> <<dep.packageName, dep.lockedVersion>>,
     precise |-> dep.newVersion]

\* the command cargoUpdate executes
cargoUpdate(maintenance) == << UpdateCmd(~maintenance) >>

\* lines 46-60 with every command put in front of the list
cargoUpdatePreciseUnshift(deps) ==
    [i \in 1 .. Len(deps) |-> PreciseCmd(deps[Len(deps) + 1 - i])] \o << UpdateCmd(TRUE) >>

\* the commands cargoUpdatePrecise executes
cargoUpdatePrecise(deps) ==
    << UpdateCmd(TRUE) >> \o [i \in 1 .. Len(deps) |-> PreciseCmd(deps[i])]

HasNonCrateDep(deps) ==
    \E i \in 1 .. Len(deps) : deps[i].datasource # CrateDatasourceId

\* lines 127-129 without a crate upgrade that lacks its locked version
NoCrateDepWithoutLockedVersion(deps) == FALSE

HasCrateDepWithoutLockedVersion(deps) ==
    \E i \in 1 .. Len(deps) :
        deps[i].lockedVersion = NoVersion /\ deps[i].datasource = CrateDatasourceId

\* lines 121-151 with the upgrades tested before isLockFileMaintenance
PlannedCmdsUpgradesFirst(maintenance, deps) ==
    IF HasNonCrateDep(deps) \/ HasCrateDepWithoutLockedVersion(deps)
    THEN cargoUpdate(maintenance)
    ELSE cargoUpdatePrecise(deps)

\* lines 121-151: the commands one attempt passes to exec
PlannedCmds(maintenance, deps) ==
    IF maintenance
    THEN cargoUpdate(TRUE)
    ELSE IF HasNonCrateDep(deps) \/ HasCrateDepWithoutLockedVersion(deps)
         THEN cargoUpdate(FALSE)
         ELSE cargoUpdatePrecise(deps)

\* coerceArray(versions?.get(packageName)) of the versions extracted from content
LockedVersions(content, packageName) ==
    IF content.parsable
    THEN {x[2] : x \in {y \in content.locked : y[1] = packageName}}
    ELSE {}

\* lines 185-190 without the negation
FilterDepsKeepingLocked(deps, content) ==
    SelectSeq(deps, LAMBDA dep : dep.newVersion \in LockedVersions(content, dep.packageName))

\* lines 185-190 with dep.lockedVersion looked up instead of dep.newVersion
FilterDepsByLockedVersion(deps, content) ==
    SelectSeq(deps, LAMBDA dep : dep.lockedVersion \notin LockedVersions(content, dep.packageName))

\* lines 185-190
FilterDeps(deps, content) ==
    SelectSeq(deps, LAMBDA dep : dep.newVersion \notin LockedVersions(content, dep.packageName))

\* line 170 with the stderr signature tested before the message
IsFatalUnlessPackageIdSpec(e) ==
    e.message = TEMPORARY_ERROR /\ e.stderr # PackageIdSpecStderr

\* line 170 with `!==`
IsFatalInverted(e) == e.message # TEMPORARY_ERROR

\* line 170
IsFatal(e) == e.message = TEMPORARY_ERROR

\* line 182 with the test of the stderr left out
MatchesAnyStderr(e) == TRUE

\* line 182
MatchesPackageIdSpec(e) == e.stderr = PackageIdSpecStderr

\* lines 179-183 and 192 with `recursionLimit >= 0`
ShouldRetryAtZero(limit, content, e, deps) ==
    /\ limit >= 0
    /\ Truthy(content)
    /\ e.stderr = PackageIdSpecStderr
    /\ Len(FilterDeps(deps, content)) < Len(deps)

\* lines 179-183 and 192 with `newUpdatedDeps.length <= updatedDeps.length`
ShouldRetryWithoutProgress(limit, content, e, deps) ==
    /\ limit > 0
    /\ Truthy(content)
    /\ e.stderr = PackageIdSpecStderr
    /\ Len(FilterDeps(deps, content)) <= Len(deps)

\* lines 179-183 without the test of line 192
ShouldRetryOnAnyConflict(limit, content, e, deps) ==
    /\ limit > 0
    /\ Truthy(content)
    /\ e.stderr = PackageIdSpecStderr

\* lines 179-183 and 192
ShouldRetry(limit, content, e, deps) ==
    /\ limit > 0
    /\ Truthy(content)
    /\ MatchesPackageIdSpec(e)
    /\ Len(FilterDeps(deps, content)) < Len(deps)

\* line 155 comparing the two reads by identity, which no two reads share
UnchangedByIdentity(before, after) == FALSE

\* line 155
Unchanged(before, after) == before = after

\* line 98 without the test of the content
LockFileMissingByNameOnly(found, content) == ~found

\* line 98
LockFileMissing(found, content) == ~found \/ ~Truthy(content)

\* line 104 without the negation of isLockFileMaintenance
NothingToUpdateInMaintenance(maintenance, deps) == maintenance /\ Len(deps) = 0

\* line 104
NothingToUpdate(maintenance, deps) == ~maintenance /\ Len(deps) = 0

\* lines 106-114 and 159-167 with entries of null contents left out
FileResultSkippingNull(lockFile, contents) ==
    IF contents.kind = "null" THEN <<>> ELSE << FileAddition(lockFile, contents) >>

\* lines 106-114 and 159-167
FileResult(lockFile, contents) == << FileAddition(lockFile, contents) >>

\* lines 210-217 with `stderr: err.stderr`
ArtifactErrorResultFromStderr(lockFile, e) == << ArtifactError(lockFile, e.stderr) >>

\* lines 210-217
ArtifactErrorResult(lockFile, e) == << ArtifactError(lockFile, e.message) >>

\* the failure is the recoverable conflict and the resolver left the lock file alone
RecoverableNoChange(e, before, after) ==
    /\ e.message # TEMPORARY_ERROR
    /\ e.stderr = PackageIdSpecStderr
    /\ before = after

\* ------------------------------------------------------------------------
\* State
\* ------------------------------------------------------------------------

VARIABLES
    pc,                       \* where the call is: "find", "write", "exec", "read", "catch", "done"
    updatedDeps,              \* updatedDeps of the current attempt
    isLockFileMaintenance,    \* config.isLockFileMaintenance
    recursionLimit,           \* recursionLimit of the current attempt
    lockFilePresent,          \* whether findLocalSiblingOrParent finds a Cargo.lock
    disk,                     \* what readLocalFile(lockFileName) returns now
    existingLockFileContent,  \* existingLockFileContent of the current attempt
    err,                      \* the error caught by the current attempt
    cmds,                     \* the commands the current attempt passed to exec
    steps,                    \* what the current attempt did to the working tree, in order
    result,                   \* how the top-level call ended
    origDeps,                 \* updatedDeps of the top-level call
    startDisk,                \* lock file content when the top-level call started
    retries,                  \* recursive calls made
    execCount,                \* calls of exec
    writeCount,               \* calls of writeLocalFile
    stubborn,                 \* every exec so far failed with the recoverable
                              \* conflict and left the lock file as it was
    manifest,                 \* content of the manifest file on disk
    prevErr                   \* the error caught by the attempt before the current one

vars ==
    << pc, updatedDeps, isLockFileMaintenance, recursionLimit, lockFilePresent, disk,
       existingLockFileContent, err, cmds, steps, result, origDeps, startDisk,
       retries, execCount, writeCount, stubborn, manifest, prevErr >>

\* the manifest before the call and the newPackageFileContent of the request
OldPackageFileContent == "old Cargo.toml"

NewPackageFileContent == "new Cargo.toml"

LockFileName == "Cargo.lock"

Init ==
    /\ pc = "find"
    /\ updatedDeps \in RequestLists
    /\ isLockFileMaintenance \in BOOLEAN
    /\ recursionLimit = DefaultRecursionLimit
    /\ lockFilePresent \in BOOLEAN
    /\ disk \in (IF lockFilePresent THEN StartContents ELSE {NullContent})
    /\ existingLockFileContent = NullContent
    /\ err = NoErr
    /\ cmds = <<>>
    /\ steps = <<>>
    /\ result = Pending
    /\ origDeps = updatedDeps
    /\ startDisk = disk
    /\ retries = 0
    /\ execCount = 0
    /\ writeCount = 0
    /\ stubborn = TRUE
    /\ manifest = OldPackageFileContent
    /\ prevErr = NoErr

\* ------------------------------------------------------------------------
\* Steps of updateArtifactsImpl
\* ------------------------------------------------------------------------

Finish(r) ==
    /\ pc' = "done"
    /\ result' = r

\* lines 91-101: no Cargo.lock found, or it reads as null or empty
NoLockFile ==
    /\ pc = "find"
    /\ LockFileMissing(lockFilePresent, disk)
    /\ Finish(ReturnNull)
    /\ existingLockFileContent' = IF lockFilePresent THEN disk ELSE NullContent
    /\ UNCHANGED << updatedDeps, isLockFileMaintenance, recursionLimit, lockFilePresent,
                    disk, err, cmds, steps, origDeps, startDisk, retries, execCount,
                    writeCount, stubborn,
                    manifest, prevErr >>

\* lines 103-115: nothing to update in a request that is no maintenance
NoMoreDeps ==
    /\ pc = "find"
    /\ ~LockFileMissing(lockFilePresent, disk)
    /\ NothingToUpdate(isLockFileMaintenance, updatedDeps)
    /\ Finish(ReturnList(FileResult(LockFileName, disk)))
    /\ existingLockFileContent' = disk
    /\ UNCHANGED << updatedDeps, isLockFileMaintenance, recursionLimit, lockFilePresent,
                    disk, err, cmds, steps, origDeps, startDisk, retries, execCount,
                    writeCount, stubborn,
                    manifest, prevErr >>

\* lines 91-116: the lock file is read and the attempt enters the try block
BeginAttempt ==
    /\ pc = "find"
    /\ ~LockFileMissing(lockFilePresent, disk)
    /\ ~NothingToUpdate(isLockFileMaintenance, updatedDeps)
    /\ pc' = "write"
    /\ existingLockFileContent' = disk
    /\ UNCHANGED << updatedDeps, isLockFileMaintenance, recursionLimit, lockFilePresent,
                    disk, err, cmds, steps, result, origDeps, startDisk, retries,
                    execCount, writeCount, stubborn,
                    manifest, prevErr >>

\* line 118 skipped: the attempt goes on to exec without writing the manifest
WriteSkipped ==
    /\ pc = "write"
    /\ pc' = "exec"
    /\ UNCHANGED << updatedDeps, isLockFileMaintenance, recursionLimit, lockFilePresent,
                    disk, existingLockFileContent, err, cmds, steps, result, origDeps,
                    startDisk, retries, execCount, writeCount, stubborn, manifest,
                    prevErr >>

\* line 118: writeLocalFile resolves
WriteOk ==
    /\ pc = "write"
    /\ pc' = "exec"
    /\ steps' = Append(steps, "write")
    /\ writeCount' = writeCount + 1
    /\ manifest' = NewPackageFileContent
    /\ UNCHANGED << updatedDeps, isLockFileMaintenance, recursionLimit, lockFilePresent,
                    disk, existingLockFileContent, err, cmds, result, origDeps,
                    startDisk, retries, execCount, stubborn, prevErr >>

\* line 118: writeLocalFile rejects
WriteFail ==
    /\ pc = "write"
    /\ \E e \in WriteErrors : err' = e
    /\ pc' = "catch"
    /\ steps' = Append(steps, "write failed")
    /\ writeCount' = writeCount + 1
    /\ UNCHANGED << updatedDeps, isLockFileMaintenance, recursionLimit, lockFilePresent,
                    disk, existingLockFileContent, cmds, result, origDeps, startDisk,
                    retries, execCount, stubborn,
                    manifest, prevErr >>

\* lines 121-151: exec resolves; the resolver has left some lock file
ExecOk ==
    /\ pc = "exec"
    /\ cmds' = PlannedCmds(isLockFileMaintenance, updatedDeps)
    /\ \E d \in DiskAfterExec(disk) : disk' = d
    /\ pc' = "read"
    /\ steps' = Append(steps, "exec")
    /\ execCount' = execCount + 1
    /\ stubborn' = FALSE
    /\ UNCHANGED << updatedDeps, isLockFileMaintenance, recursionLimit, lockFilePresent,
                    existingLockFileContent, err, result, origDeps, startDisk, retries,
                    writeCount,
                    manifest, prevErr >>

\* lines 121-151: exec rejects; the commands before the failing one may have
\* changed the lock file
ExecFail ==
    /\ pc = "exec"
    /\ cmds' = PlannedCmds(isLockFileMaintenance, updatedDeps)
    /\ \E d \in DiskAfterExec(disk), e \in ExecErrors :
          /\ disk' = d
          /\ err' = e
          /\ stubborn' = (stubborn /\ RecoverableNoChange(e, disk, d))
    /\ pc' = "catch"
    /\ steps' = Append(steps, "exec failed")
    /\ execCount' = execCount + 1
    /\ UNCHANGED << updatedDeps, isLockFileMaintenance, recursionLimit, lockFilePresent,
                    existingLockFileContent, result, origDeps, startDisk, retries,
                    writeCount,
                    manifest, prevErr >>

\* lines 153-167: the lock file is read again and compared
ReturnUpdated ==
    /\ pc = "read"
    /\ Finish(IF Unchanged(existingLockFileContent, disk)
              THEN ReturnNull
              ELSE ReturnList(FileResult(LockFileName, disk)))
    /\ steps' = Append(steps, "read")
    /\ UNCHANGED << updatedDeps, isLockFileMaintenance, recursionLimit, lockFilePresent,
                    disk, existingLockFileContent, err, cmds, origDeps, startDisk,
                    retries, execCount, writeCount, stubborn,
                    manifest, prevErr >>

\* lines 170-172: the fatal error is thrown again
Rethrow ==
    /\ pc = "catch"
    /\ IsFatal(err)
    /\ Finish(Throw(err))
    /\ UNCHANGED << updatedDeps, isLockFileMaintenance, recursionLimit, lockFilePresent,
                    disk, existingLockFileContent, err, cmds, steps, origDeps, startDisk,
                    retries, execCount, writeCount, stubborn,
                    manifest, prevErr >>

\* lines 178-205: the satisfied upgrades are dropped and the call re-enters itself
Retry ==
    /\ pc = "catch"
    /\ ~IsFatal(err)
    /\ ShouldRetry(recursionLimit, disk, err, updatedDeps)
    /\ updatedDeps' = FilterDeps(updatedDeps, disk)
    /\ recursionLimit' = recursionLimit - 1
    /\ retries' = retries + 1
    /\ pc' = "find"
    /\ prevErr' = err
    /\ err' = NoErr
    /\ cmds' = <<>>
    /\ steps' = <<>>
    /\ UNCHANGED << isLockFileMaintenance, lockFilePresent, disk, existingLockFileContent,
                    result, origDeps, startDisk, execCount, writeCount, stubborn,
                    manifest >>

\* lines 208-217: any other failure becomes an artifact error
ReturnArtifactError ==
    /\ pc = "catch"
    /\ ~IsFatal(err)
    /\ ~ShouldRetry(recursionLimit, disk, err, updatedDeps)
    /\ Finish(ReturnList(ArtifactErrorResult(LockFileName, err)))
    /\ UNCHANGED << updatedDeps, isLockFileMaintenance, recursionLimit, lockFilePresent,
                    disk, existingLockFileContent, err, cmds, steps, origDeps, startDisk,
                    retries, execCount, writeCount, stubborn,
                    manifest, prevErr >>

Next ==
    \/ NoLockFile
    \/ NoMoreDeps
    \/ BeginAttempt
    \/ WriteOk
    \/ WriteFail
    \/ ExecOk
    \/ ExecFail
    \/ ReturnUpdated
    \/ Rethrow
    \/ Retry
    \/ ReturnArtifactError

Spec == Init /\ [][Next]_vars

\* every await of the call resolves or rejects: the call keeps running
FairSpec == Spec /\ WF_vars(Next)

TypeOK ==
    /\ pc \in {"find", "write", "exec", "read", "catch", "done"}
    /\ recursionLimit \in 0 .. DefaultRecursionLimit
    /\ retries \in 0 .. DefaultRecursionLimit
    /\ Len(updatedDeps) <= Len(origDeps)

\* ------------------------------------------------------------------------
\* Helpers of the properties
\* ------------------------------------------------------------------------

Done == pc = "done"

Returned == Done /\ result.outcome = "returned"

Thrown == Done /\ result.outcome = "thrown"

ReturnedNull == Returned /\ result.isNull

ReturnedFile ==
    Returned /\ ~result.isNull /\ Len(result.list) = 1 /\ IsFile(result.list[1])

ReturnedArtifactError ==
    Returned /\ ~result.isNull /\ Len(result.list) = 1 /\ IsArtifactError(result.list[1])

LastStep == IF steps = <<>> THEN "" ELSE steps[Len(steps)]

\* the current attempt failed in writeLocalFile
WriteFailed == LastStep = "write failed"

\* the current attempt failed in exec
ExecFailed == LastStep = "exec failed"

\* the current attempt invoked the resolver
ExecInvoked == \E i \in 1 .. Len(steps) : steps[i] \in {"exec", "exec failed"}

\* s is t with some elements left out
RECURSIVE IsSubList(_, _)
IsSubList(s, t) ==
    IF s = <<>> THEN TRUE
    ELSE IF t = <<>> THEN FALSE
    ELSE IF Head(s) = Head(t) THEN IsSubList(Tail(s), Tail(t))
    ELSE IsSubList(s, Tail(t))

\* the target version of upgrade dep is among the versions content locks for its package
AlreadyLocked(dep, content) ==
    content.parsable /\ <<dep.packageName, dep.newVersion>> \in content.locked

AllCrateWithLockedVersion(deps) ==
    \A i \in 1 .. Len(deps) :
        deps[i].datasource = "crate" /\ deps[i].lockedVersion # ""

\* ------------------------------------------------------------------------
\* C1
\* ------------------------------------------------------------------------

\* C1: a caught error whose message is TEMPORARY_ERROR is thrown again as it
\* is, whatever its stderr, on the first attempt and on every retry; that
\* step ends the call, so no exec, no write, no retry and no artifact error
\* follow it.
C1_FatalPassthrough ==
    /\ [][ (pc = "catch" /\ err.message = TEMPORARY_ERROR)
            => /\ pc' = "done"
               /\ result' = Throw(err)
               /\ execCount' = execCount
               /\ writeCount' = writeCount
               /\ retries' = retries ]_vars
    /\ []( (Done /\ err.message = TEMPORARY_ERROR) => result = Throw(err) )

\* a retry attempt that failed with the fatal message and the package ID
\* specification stderr, thrown to the caller
C1_Witness ==
    /\ Thrown
    /\ retries > 0
    /\ ExecFailed
    /\ err.message = TEMPORARY_ERROR
    /\ err.stderr = PackageIdSpecStderr

\* ------------------------------------------------------------------------
\* C2
\* ------------------------------------------------------------------------

\* C2: one top-level call makes at most 10 recursive retries, so at most 11
\* attempts; the budget is 10 minus the retries made; a failure with the
\* recoverable signature at budget 0 ends in an artifact error.
C2_BudgetBound ==
    /\ retries <= 10
    /\ recursionLimit = 10 - retries
    /\ execCount <= retries + 1
    /\ writeCount <= retries + 1
    /\ ( /\ Done
         /\ recursionLimit = 0
         /\ err.stderr = PackageIdSpecStderr
         /\ err.message # TEMPORARY_ERROR )
       => ReturnedArtifactError

\* the eleventh attempt failed with the recoverable signature, an upgrade it
\* requested is already locked, and the call ended in an artifact error
C2_Witness ==
    /\ ReturnedArtifactError
    /\ retries = 10
    /\ recursionLimit = 0
    /\ err.stderr = PackageIdSpecStderr
    /\ \E i \in 1 .. Len(updatedDeps) : AlreadyLocked(updatedDeps[i], disk)

\* ------------------------------------------------------------------------
\* C3
\* ------------------------------------------------------------------------

\* C3: the upgrade list of a retry is a strict sub-list of the list of the
\* failed attempt; when no upgrade of the failed attempt is already locked,
\* there is no retry and the attempt ends with an artifact error.
C3_RecoveryNarrows ==
    /\ [][ retries' # retries
            => /\ IsSubList(updatedDeps', updatedDeps)
               /\ Len(updatedDeps') < Len(updatedDeps) ]_vars
    /\ [][ ( /\ pc = "catch"
             /\ err.message # TEMPORARY_ERROR
             /\ \A i \in 1 .. Len(updatedDeps) : ~AlreadyLocked(updatedDeps[i], disk) )
            => /\ retries' = retries
               /\ updatedDeps' = updatedDeps
               /\ ReturnedArtifactError' ]_vars

\* after a retry that dropped an upgrade and kept another, an attempt failed
\* with the recoverable signature and budget left, no upgrade was locked, and
\* the call ended in an artifact error
C3_Witness ==
    /\ ReturnedArtifactError
    /\ retries > 0
    /\ recursionLimit > 0
    /\ 0 < Len(updatedDeps) /\ Len(updatedDeps) < Len(origDeps)
    /\ err.stderr = PackageIdSpecStderr
    /\ Truthy(disk)
    /\ \A i \in 1 .. Len(updatedDeps) : ~AlreadyLocked(updatedDeps[i], disk)

\* ------------------------------------------------------------------------
\* C4
\* ------------------------------------------------------------------------

C5_AdditionDiffersFromStart ==
    ReturnedFile => result.list[1].file.contents # startDisk

\* ------------------------------------------------------------------------
\* C6
\* ------------------------------------------------------------------------

\* C6: an attempt whose resolver execution completed without failure and
\* whose lock file, read afterwards, equals the content read at the start of
\* the attempt returns null.
C6_Idempotence ==
    (Done /\ LastStep = "read" /\ disk = existingLockFileContent) => ReturnedNull

\* the resolver ran, succeeded and left the lock file as the attempt found it
C6_Witness ==
    /\ Done
    /\ steps = << "write", "exec", "read" >>
    /\ disk = existingLockFileContent
    /\ ReturnedNull

\* ------------------------------------------------------------------------
\* C7
\* ------------------------------------------------------------------------

\* C7: when no Cargo.lock is found, or it reads as null or empty, the call
\* returns null without writing the manifest and without executing a resolver
\* command, for maintenance requests too.
C7_NoLockFileShortCircuit ==
    (~lockFilePresent \/ startDisk.kind # "text") =>
        /\ writeCount = 0
        /\ execCount = 0
        /\ retries = 0
        /\ pc \in {"find", "done"}
        /\ Done => ReturnedNull

\* a maintenance request whose lock file reads as empty, answered with null
C7_Witness ==
    /\ ReturnedNull
    /\ isLockFileMaintenance
    /\ lockFilePresent
    /\ startDisk = EmptyContent
    /\ Len(origDeps) > 0

\* ------------------------------------------------------------------------
\* C8
\* ------------------------------------------------------------------------

NumPrecise(cs) == Cardinality({i \in 1 .. Len(cs) : cs[i].package # <<>>})

\* C8: an attempt that reaches exec passes it, in one call, exactly one
\* command that pins nothing when the request is a maintenance request, and
\* exactly one full update command plus one pinning command per upgrade when
\* the request is no maintenance request and every upgrade is of the crate
\* datasource with a locked version.
C8_MaintenanceVsTargeted ==
    ExecInvoked =>
        /\ Cardinality({i \in 1 .. Len(steps) : steps[i] \in {"exec", "exec failed"}}) = 1
        /\ isLockFileMaintenance =>
            /\ Len(cmds) = 1
            /\ NumPrecise(cmds) = 0
            /\ cmds[1].precise = ""
        /\ (~isLockFileMaintenance /\ AllCrateWithLockedVersion(updatedDeps)) =>
            /\ Len(cmds) = 1 + Len(updatedDeps)
            /\ NumPrecise(cmds) = Len(updatedDeps)
            /\ \A i \in 1 .. Len(cmds) : cmds[i].package # <<>> <=> cmds[i].precise # ""

\* a targeted request with two locked crate upgrades executed three commands
C8_Witness ==
    /\ ExecInvoked
    /\ ~isLockFileMaintenance
    /\ Len(updatedDeps) = 2
    /\ AllCrateWithLockedVersion(updatedDeps)
    /\ Len(cmds) = 3

\* a maintenance request with locked crate upgrades executed one command
C8_WitnessMaintenance ==
    /\ ExecInvoked
    /\ isLockFileMaintenance
    /\ Len(updatedDeps) = 2
    /\ AllCrateWithLockedVersion(updatedDeps)
    /\ Len(cmds) = 1

\* ------------------------------------------------------------------------
\* C9
\* ------------------------------------------------------------------------

\* C9: a call that returns, returns null, or a list of exactly one lock file
\* addition, or a list of exactly one artifact error; the one entry is never
\* both.
C9_SingleResult ==
    Returned =>
        \/ result.isNull /\ result.list = <<>>
        \/ /\ ~result.isNull
           /\ Len(result.list) = 1
           /\ IsFile(result.list[1]) # IsArtifactError(result.list[1])
           /\ DOMAIN result.list[1] \subseteq {"file", "artifactError"}

\* after retries, a call returned one artifact error
C9_Witness ==
    /\ ReturnedArtifactError
    /\ retries > 1

\* ------------------------------------------------------------------------
\* C10
\* ------------------------------------------------------------------------

\* the resolver was invoked, every invocation failed with the recoverable
\* signature and left the lock file as it was, and every manifest write succeeded
StubbornResolver == stubborn /\ execCount > 0 /\ writeCount = execCount

\* C10 as stated, its last part: with a resolver that fails with the
\* recoverable signature on every invocation and never changes the lock file,
\* the call ends in an artifact error.
C10_StubbornEndsInArtifactError ==
    (Done /\ StubbornResolver) => ReturnedArtifactError

\* C10 as amended: every call reaches a terminal outcome, a return or a
\* throw. With a resolver that fails with the recoverable signature on every
\* invocation and never changes the lock file, the call ends in an artifact
\* error, unless the request is no maintenance request and the lock file
\* already locks the target version of every requested upgrade: then the
\* retry has nothing left to update and the call returns the unchanged lock
\* file as a file addition.
C10_Termination ==
    /\ <>Done
    /\ [](Done => result.outcome \in {"returned", "thrown"})
    /\ []( (Done /\ StubbornResolver) =>
             IF /\ ~isLockFileMaintenance
                /\ \A i \in 1 .. Len(origDeps) : AlreadyLocked(origDeps[i], startDisk)
             THEN result = ReturnList(<< FileAddition(LockFileName, startDisk) >>)
             ELSE ReturnedArtifactError )

\* two executions failed with the recoverable signature, the lock file never
\* changed, and the call ended in an artifact error
C10_Witness ==
    /\ Done
    /\ StubbornResolver
    /\ execCount = 2
    /\ disk = startDisk
    /\ ReturnedArtifactError

\* ------------------------------------------------------------------------
\* C11
\* ------------------------------------------------------------------------

\* the current attempt of a request that is no maintenance request failed in
\* exec with the recoverable conflict, and the lock file read after the
\* failure locks the target version of every upgrade of the attempt
AllSatisfiedAfterConflict ==
    /\ ExecFailed
    /\ ~isLockFileMaintenance
    /\ err.message # TEMPORARY_ERROR
    /\ err.stderr = PackageIdSpecStderr
    /\ \A i \in 1 .. Len(updatedDeps) : AlreadyLocked(updatedDeps[i], disk)

\* C11 as stated: after such a failure the call returns a lock file addition.
C11_AllSatisfiedReturnsFile ==
    (Done /\ AllSatisfiedAfterConflict) => ReturnedFile

\* C11 as amended: after such a failure with a budget greater than 0, the
\* retry gets the empty list, writes no manifest, invokes no resolver command
\* and returns a lock file addition whose contents are the lock file content
\* read at the start of the retry.
C11_EmptyFilterShortCircuit ==
    /\ [][ (pc = "catch" /\ AllSatisfiedAfterConflict /\ recursionLimit > 0)
            => /\ pc' = "find"
               /\ retries' = retries + 1
               /\ updatedDeps' = <<>>
               /\ disk' = disk ]_vars
    /\ [][ (pc = "find" /\ retries > 0 /\ ~isLockFileMaintenance /\ updatedDeps = <<>>)
            => /\ Done'
               /\ result' = ReturnList(<< FileAddition("Cargo.lock", disk) >>)
               /\ existingLockFileContent' = disk
               /\ disk' = disk
               /\ steps' = <<>>
               /\ execCount' = execCount
               /\ writeCount' = writeCount ]_vars

\* a retry with nothing left to update returned the lock file the failed
\* attempt had changed
C11_Witness ==
    /\ ReturnedFile
    /\ retries > 0
    /\ ~isLockFileMaintenance
    /\ updatedDeps = <<>>
    /\ steps = <<>>
    /\ disk # startDisk
    /\ result.list[1].file.contents = disk

\* ------------------------------------------------------------------------
\* C12
\* ------------------------------------------------------------------------

\* C12: a failure of exec whose message is not TEMPORARY_ERROR is never
\* thrown to the caller: the attempt retries or returns an artifact error.
C12_TerminalFailuresReported ==
    /\ [](Thrown => result.error.message = TEMPORARY_ERROR)
    /\ [][ (pc = "catch" /\ ExecFailed /\ err.message # TEMPORARY_ERROR)
            => \/ pc' = "find" /\ retries' = retries + 1
               \/ ReturnedArtifactError' ]_vars

\* an exec failure without the recoverable signature, returned as artifact error
C12_Witness ==
    /\ ReturnedArtifactError
    /\ ExecFailed
    /\ err.message # TEMPORARY_ERROR
    /\ err.stderr = OtherStderr

\* ------------------------------------------------------------------------
\* C13
\* ------------------------------------------------------------------------

\* the lock file read after the failure is null or empty, or the stderr of
\* the failure is not the package ID specification text
NoRecoveryPossible == disk.kind # "text" \/ err.stderr # PackageIdSpecStderr

\* C13 as stated, its last part: an attempt that failed in exec and whose
\* lock file is unreadable or whose stderr does not match ends with an
\* artifact error.
C13_NoRecoveryEndsInArtifactError ==
    (Done /\ ExecFailed /\ NoRecoveryPossible) => ReturnedArtifactError

\* C13 as amended: a failed attempt starts a retry only if the error is not
\* the fatal one, the budget is greater than 0, the lock file read after the
\* failure is a non-empty text, the stderr matches and an upgrade is already
\* locked; if the error is not the fatal one and the lock file is unreadable
\* or the stderr does not match, the attempt ends with an artifact error and
\* no further resolver invocation.
C13_RetryEligibility ==
    /\ [][ retries' # retries
            => /\ pc = "catch"
               /\ err.message # TEMPORARY_ERROR
               /\ recursionLimit > 0
               /\ disk.kind = "text"
               /\ err.stderr = PackageIdSpecStderr
               /\ \E i \in 1 .. Len(updatedDeps) : AlreadyLocked(updatedDeps[i], disk) ]_vars
    /\ [][ (pc = "catch" /\ err.message # TEMPORARY_ERROR /\ NoRecoveryPossible)
            => /\ ReturnedArtifactError'
               /\ retries' = retries
               /\ execCount' = execCount ]_vars

\* the resolver removed the lock file and failed with the recoverable
\* signature: artifact error, although budget was left
C13_Witness ==
    /\ ReturnedArtifactError
    /\ ExecFailed
    /\ disk = NullContent
    /\ err.stderr = PackageIdSpecStderr
    /\ recursionLimit > 0

\* ------------------------------------------------------------------------
\* C14
\* ------------------------------------------------------------------------

\* the upgrades of deps that content does not lock at their target version,
\* in their order
RECURSIVE KeepUnlocked(_, _)
KeepUnlocked(deps, content) ==
    IF deps = <<>> THEN <<>>
    ELSE (IF AlreadyLocked(Head(deps), content) THEN <<>> ELSE << Head(deps) >>)
             \o KeepUnlocked(Tail(deps), content)

\* C14: the list of a retry holds exactly the upgrades of the failed attempt
\* whose newVersion the lock file read after the failure does not lock for
\* their package, in their order; an upgrade of a package the lock file does
\* not mention stays.
C14_FilterExactness ==
    [][ retries' # retries
         => /\ updatedDeps' = KeepUnlocked(updatedDeps, disk)
            /\ \A i \in 1 .. Len(updatedDeps) :
                 (\A x \in disk.locked : x[1] # updatedDeps[i].packageName)
                     => \E j \in 1 .. Len(updatedDeps') : updatedDeps'[j] = updatedDeps[i] ]_vars

\* the lock file locks package 1 at the target of the first upgrade and does
\* not mention package 2: the retry keeps the upgrade of package 2 alone
C14_Witness ==
    /\ pc = "find"
    /\ retries = 1
    /\ disk = MultiContent
    /\ Len(origDeps) = 2
    /\ origDeps[1].packageName = 1
    /\ updatedDeps = << origDeps[2] >>
    /\ updatedDeps[1].packageName = 2

\* ------------------------------------------------------------------------
\* C15
\* ------------------------------------------------------------------------

\* C15: an attempt of a request that is no maintenance request, with an
\* upgrade that is not of the crate datasource or a crate upgrade without
\* locked version, passes exec exactly one command: the full update of the
\* workspace, and no pinning command.
C15_FallbackStrategy ==
    ( /\ ExecInvoked
      /\ ~isLockFileMaintenance
      /\ \E i \in 1 .. Len(updatedDeps) :
            \/ updatedDeps[i].datasource # "crate"
            \/ updatedDeps[i].lockedVersion = "" )
    => cmds = << [workspace |-> TRUE, package |-> <<>>, precise |-> ""] >>

\* a locked crate upgrade followed by a crate upgrade without locked version
C15_Witness ==
    /\ ExecInvoked
    /\ ~isLockFileMaintenance
    /\ Len(updatedDeps) = 2
    /\ updatedDeps[1].datasource = "crate" /\ updatedDeps[1].lockedVersion # ""
    /\ updatedDeps[2].datasource = "crate" /\ updatedDeps[2].lockedVersion = ""
    /\ Len(cmds) = 1

\* ------------------------------------------------------------------------
\* C16
\* ------------------------------------------------------------------------

\* C16: in the precise strategy the first command is the full update of the
\* workspace and command i + 1 pins the package and locked version of upgrade
\* i to the target version of upgrade i; the command list is determined by
\* the request.
C16_PlanOrder ==
    ( /\ ExecInvoked
      /\ ~isLockFileMaintenance
      /\ AllCrateWithLockedVersion(updatedDeps) )
    => /\ Len(cmds) = Len(updatedDeps) + 1
       /\ cmds[1] = [workspace |-> TRUE, package |-> <<>>, precise |-> ""]
       /\ \A i \in 1 .. Len(updatedDeps) :
            /\ cmds[i + 1].package = << updatedDeps[i].packageName, updatedDeps[i].lockedVersion >>
            /\ cmds[i + 1].precise = updatedDeps[i].newVersion
            /\ ~cmds[i + 1].workspace

\* two different upgrades, pinned in their order after the full update
C16_Witness ==
    /\ ExecInvoked
    /\ ~isLockFileMaintenance
    /\ Len(updatedDeps) = 2
    /\ updatedDeps[1] # updatedDeps[2]
    /\ AllCrateWithLockedVersion(updatedDeps)
    /\ Len(cmds) = 3
    /\ cmds[2].precise # cmds[3].precise

\* ------------------------------------------------------------------------
\* C17
\* ------------------------------------------------------------------------

\* C17: in every attempt, the first and the retries, exec is invoked only
\* directly after writeLocalFile wrote the newPackageFileContent of the
\* request, and the lock file is read for the comparison only directly after
\* exec resolved.
C17_AttemptOrdering ==
    /\ \A i \in 1 .. Len(steps) :
         /\ steps[i] \in {"exec", "exec failed"} =>
              /\ i = 2
              /\ steps[1] = "write"
              /\ manifest = "new Cargo.toml"
         /\ steps[i] = "read" => (i = 3 /\ steps[2] = "exec")
    /\ pc = "read" => (steps = << "write", "exec" >> /\ manifest = "new Cargo.toml")
    /\ pc = "exec" => (steps = << "write" >> /\ manifest = "new Cargo.toml")

\* a retry wrote the manifest, invoked the resolver and read the lock file
C17_Witness ==
    /\ Done
    /\ retries > 0
    /\ steps = << "write", "exec", "read" >>
    /\ writeCount = retries + 1
    /\ execCount = retries + 1

\* ------------------------------------------------------------------------
\* C18
\* ------------------------------------------------------------------------

\* C18: an artifact error returned after one or more retries carries the
\* lock file path and the message of the failure of the last attempt.
C18_LatestDiagnostic ==
    (ReturnedArtifactError /\ retries > 0) =>
        /\ result.list[1].artifactError.lockFile = "Cargo.lock"
        /\ result.list[1].artifactError.stderr = err.message
        /\ err # NoErr

\* the attempt before the last failed with another message than the last
C18_Witness ==
    /\ ReturnedArtifactError
    /\ retries > 0
    /\ ExecFailed
    /\ prevErr.message # err.message
    /\ result.list[1].artifactError.stderr = err.message

\* ------------------------------------------------------------------------
\* C19
\* ------------------------------------------------------------------------

\* C19: when a call on an existing lock file returns null, the lock file on
\* disk is what it was when the call started.
C19_NullMeansLockFileUntouched ==
    (ReturnedNull /\ lockFilePresent /\ startDisk.kind = "text") => disk = startDisk

\* ------------------------------------------------------------------------
\* C20
\* ------------------------------------------------------------------------

\* C20: the retries of one call never exceed the number of upgrades of the
\* request, nor 10: every retry drops at least one upgrade and none is added.
C20_RetriesBoundedByRequest ==
    /\ retries <= Len(origDeps)
    /\ retries <= 10
    /\ retries + Len(updatedDeps) <= Len(origDeps)
    /\ Len(origDeps) = 0 => retries = 0

\* a request of two upgrades was retried twice, one upgrade dropped each time
C20_Witness ==
    /\ Done
    /\ Len(origDeps) = 2
    /\ retries = 2
    /\ updatedDeps = <<>>

====
